---- MODULE Spec2Model ----
(***************************************************************************)
(* State-machine model of src/data_scrape.py: scrape_site (lines 25-69)    *)
(* and scrape_products (lines 70-200).  The browser is the environment:    *)
(* every Selenium call either returns or raises, chosen with \E.  The      *)
(* program is single-threaded; pc is the position of the one flow of       *)
(* control, and an except or finally clause runs as a step of its own      *)
(* where the exception crosses a function boundary.                        *)
(***************************************************************************)
EXTENDS Integers, Sequences, FiniteSets, TLC

\* ---------------------------------------------------------------- bounds
MaxItems == 2
MaxSelectors == 2
MaxReviews == 1

\* ------------------------------------------------------------- constants
\* the sentinel written by the fallback branches (lines 148-163, 176-177)
NA == "N/A"
\* Python None, what get_attribute("href") returns for an absent attribute
None == "None"
\* a lookup that raises instead of returning (NoSuchElementException, or any
\* other WebDriverException)
Missing == "<raises>"
\* JSON null, what json.dump writes for None
JsonNull == "null"

Titles == {"Laptop A", "Laptop B"}
Prices == {"$999.99"}
Urls == {"https://www.bestbuy.com/site/p1"}
Selectors == {"a.us-link", "button.c-close-icon"}
Entries == {"scrape_products", "scrape_site"}

\* what the three sub-element lookups of one listing item yield (108-110)
Lookups ==
    [title : Titles \cup {Missing},
     price : Prices \cup {Missing},
     href : Urls \cup {None, Missing}]

NoLookup == [title |-> Missing, price |-> Missing, href |-> Missing]

\* what the four sub-element lookups of one review element yield (146-161)
ReviewElems ==
    [rating : {"Rated 5 out of 5", Missing},
     title : {"Great", Missing},
     content : {"Fast and light", Missing},
     posted_by : {"Posted by Al", Missing}]

SeqsUpTo(S, n) == UNION {[1..m -> S] : m \in 0..n}

VARIABLES
    entry,            \* the function called from outside
    click_selectors,  \* scrape_site's parameter
    pc,               \* position of the flow of control
    error,            \* the exception escaping the entry function
    driver,           \* scrape_products' session (line 71)
    site_driver,      \* scrape_site's session (line 32)
    reached,          \* scrape_site steps completed: load, search, listing
    sel,              \* index of the selector of the click loop (line 41)
    clicks,           \* outcome of each optional click so far
    items,            \* the handles scrape_site returns
    i,                \* index of the listing loop (line 105)
    elem,             \* the lookups of the listing item just read
    stale_reads,      \* handles read after their session was quit
    products,         \* the list built at 104-116, mutated at 176-177
    src_of,           \* listing position of each product
    listed,           \* products as it stands at line 122
    k,                \* index of the detail loop (line 125)
    visits,           \* products on which driver.get was called (128)
    outcome,          \* how each product's iteration ended
    panel,            \* review elements on the page once the heading shows
    reviews_data,     \* the local of line 143
    artifact,         \* data/products_raw.json
    log,              \* what is printed at lines 61, 122, 135 and 196
    score,            \* get_sentiment_label's argument, in hundredths
    label             \* get_sentiment_label's result

vars == <<entry, click_selectors, pc, error, driver, site_driver, reached, sel,
          clicks, items, i, elem, stale_reads, products, src_of, listed, k,
          visits, outcome, panel, reviews_data, artifact, log, score, label>>

siteVars == <<reached, sel, clicks, site_driver, items>>
listVars == <<i, elem, stale_reads, products, src_of, listed>>
detailVars == <<k, visits, outcome, panel, reviews_data>>
outVars == <<artifact, log>>
sentVars == <<score, label>>

\* the compound scores of [-1, 1], in hundredths
Scores == -100..100

Unbound == [bound |-> FALSE, val |-> <<>>]
NotWritten == [written |-> FALSE, content |-> <<>>]

\* nothing has run yet
Idle ==
    /\ pc = "start"
    /\ error = "none"
    /\ driver = "none"
    /\ site_driver = "none"
    /\ reached = {}
    /\ sel = 1
    /\ clicks = <<>>
    /\ items = <<>>
    /\ i = 1
    /\ elem = NoLookup
    /\ stale_reads = 0
    /\ products = <<>>
    /\ src_of = <<>>
    /\ listed = <<>>
    /\ k = 1
    /\ visits = <<>>
    /\ outcome = <<>>
    /\ panel = <<>>
    /\ reviews_data = Unbound
    /\ artifact = NotWritten
    /\ log = <<>>

Init ==
    /\ entry \in Entries
    /\ click_selectors \in
         IF entry = "scrape_products"
         THEN {<<"a.us-link">>}
         ELSE SeqsUpTo(Selectors, MaxSelectors)
    /\ score = 0
    /\ label = "none"
    /\ Idle

\* ------------------------------------------------------------- scrape_site
\* line 40: "if click_selectors" is false for None and for the empty list
AfterLoad(n) == IF n > 0 THEN "click" ELSE "search_wait"

\* line 41: the loop goes on to the next selector, then to the search (51)
AfterClick(s, n) == IF s < n THEN "click" ELSE "search_wait"

ClickExcept_Abort(s, n) == "site_fail"

\* lines 47-48: the failure is printed as a warning and the loop goes on
ClickExcept(s, n) == AfterClick(s, n)

\* where control goes when scrape_site returns (line 75, or the caller)
AfterSite == IF entry = "scrape_products" THEN "extract" ELSE "done"

SiteFinally_Leak(d) == d

\* lines 68-69: finally: driver.quit()
SiteFinally(d) == "closed"

ProductsFinally_Leak(d) == d

\* lines 199-200: finally: driver.quit()
ProductsFinally(d) == "closed"

SiteExceptResult_Partial == <<1>>

\* lines 65-67: except Exception: return []
SiteExceptResult == <<>>

\* lines 71-72: driver = get_driver(headless=True), outside the try
AcquireProductsDriver ==
    /\ pc = "start"
    /\ entry = "scrape_products"
    /\ \E ok \in BOOLEAN :
         IF ok
         THEN /\ driver' = "open"
              /\ pc' = "call_site"
              /\ error' = error
         ELSE /\ driver' = driver
              /\ pc' = "raised"
              /\ error' = "WebDriverException"
    /\ UNCHANGED <<sentVars, entry, click_selectors, siteVars, listVars, detailVars, outVars>>

\* lines 32-33: driver = get_driver(headless=True), outside the try; when it
\* raises inside scrape_products the exception passes through line 75
AcquireSiteDriver ==
    /\ pc = IF entry = "scrape_products" THEN "call_site" ELSE "start"
    /\ \E ok \in BOOLEAN :
         IF ok
         THEN /\ site_driver' = "open"
              /\ pc' = "load"
              /\ error' = error
         ELSE /\ site_driver' = site_driver
              /\ pc' = IF entry = "scrape_products" THEN "unwind" ELSE "raised"
              /\ error' = "WebDriverException"
    /\ UNCHANGED <<sentVars, entry, click_selectors, driver, reached, sel, clicks, items,
                   listVars, detailVars, outVars>>

\* lines 36-37: driver.get(url)
LoadPage ==
    /\ pc = "load"
    /\ \E ok \in BOOLEAN :
         IF ok
         THEN /\ reached' = reached \cup {"load"}
              /\ pc' = AfterLoad(Len(click_selectors))
         ELSE /\ reached' = reached
              /\ pc' = "site_fail"
    /\ UNCHANGED <<sentVars, entry, click_selectors, error, driver, site_driver, sel, clicks,
                   items, listVars, detailVars, outVars>>

\* lines 41-48: one optional click, its own try/except inside the loop
ClickOptional ==
    /\ pc = "click"
    /\ sel <= Len(click_selectors)
    /\ \E ok \in BOOLEAN :
         /\ clicks' = Append(clicks, IF ok THEN "clicked" ELSE "failed")
         /\ pc' = IF ok
                  THEN AfterClick(sel, Len(click_selectors))
                  ELSE ClickExcept(sel, Len(click_selectors))
    /\ sel' = sel + 1
    /\ UNCHANGED <<sentVars, entry, click_selectors, error, driver, site_driver, reached,
                   items, listVars, detailVars, outVars>>

\* lines 51-52: wait for the search box
FindSearchBox ==
    /\ pc = "search_wait"
    /\ \E ok \in BOOLEAN :
         pc' = IF ok THEN "search_submit" ELSE "site_fail"
    /\ UNCHANGED <<sentVars, entry, click_selectors, error, driver, siteVars, listVars,
                   detailVars, outVars>>

\* lines 53-56: clear, type the term, press RETURN
SubmitSearch ==
    /\ pc = "search_submit"
    /\ \E ok \in BOOLEAN :
         IF ok
         THEN /\ reached' = reached \cup {"search"}
              /\ pc' = "listing_wait"
         ELSE /\ reached' = reached
              /\ pc' = "site_fail"
    /\ UNCHANGED <<sentVars, entry, click_selectors, error, driver, site_driver, sel, clicks,
                   items, listVars, detailVars, outVars>>

\* line 59: wait until the item selector matches
WaitListing ==
    /\ pc = "listing_wait"
    /\ \E ok \in BOOLEAN :
         pc' = IF ok THEN "find_items" ELSE "site_fail"
    /\ UNCHANGED <<sentVars, entry, click_selectors, error, driver, siteVars, listVars,
                   detailVars, outVars>>

\* lines 60-63 and 68-69: find_elements gives n handles (or raises); they are
\* returned and the session that owns them is quit on the way out
FindItems ==
    /\ pc = "find_items"
    /\ \E ok \in BOOLEAN, n \in 0..MaxItems :
         IF ok
         THEN /\ items' = [j \in 1..n |-> j]
              /\ reached' = reached \cup {"listing"}
              /\ log' = Append(log, [msg |-> "found_items", n |-> n])
              /\ site_driver' = SiteFinally(site_driver)
              /\ pc' = AfterSite
         ELSE /\ UNCHANGED <<items, reached, log, site_driver>>
              /\ pc' = "site_fail"
    /\ UNCHANGED <<sentVars, entry, click_selectors, error, driver, sel, clicks, listVars,
                   detailVars, artifact>>

\* lines 65-69: except Exception: return [], then finally: driver.quit()
SiteExcept ==
    /\ pc = "site_fail"
    /\ items' = SiteExceptResult
    /\ site_driver' = SiteFinally(site_driver)
    /\ pc' = AfterSite
    /\ UNCHANGED <<sentVars, entry, click_selectors, error, driver, reached, sel, clicks,
                   listVars, detailVars, outVars>>

\* --------------------------------------------------------- scrape_products
\* lines 108-110 inside the try of 106: any of the three lookups raising
\* leaves the try before the append of 112
Extracted(r) == r.title # Missing /\ r.price # Missing /\ r.href # Missing

\* lines 112-116: the dict appended to products
ProductOf(r) == [title |-> r.title, price |-> r.price, link |-> r.href]

AppendProduct_Front(prods, p) == <<p>> \o prods

\* line 112: products.append(...) puts the new dict last
AppendProduct(prods, p) == Append(prods, p)

\* lines 148, 153, 158, 163: a lookup that raises gives the sentinel
Field(v) == IF v = Missing THEN NA ELSE v

SkipProduct_Sentinel(prods, r) ==
    Append(prods, [title |-> Field(r.title), price |-> Field(r.price),
                   link |-> Field(r.href)])

\* lines 118-120: except Exception: print("Skipped product"), continue
SkipProduct(prods, r) == prods

\* line 128: driver.get(None) is rejected by the driver (invalid argument);
\* a URL may load or fail
NavOutcomes(link) == IF link = None THEN {FALSE} ELSE BOOLEAN

NavExcept_Drop(prods, n) == SubSeq(prods, 1, n - 1) \o SubSeq(prods, n + 1, Len(prods))

\* lines 180-182: except Exception: print, continue; the dict is not touched
NavExcept(prods, n) == prods

NavExceptNext_Raise == "unwind"

\* line 182: continue with the next product
NavExceptNext == "detail"

\* lines 176-177: product["rating"] = "N/A"; product["review_count"] = "N/A"
Fallback(p) ==
    [f \in DOMAIN p \cup {"rating", "review_count"} |->
        IF f \in {"rating", "review_count"} THEN NA ELSE p[f]]

ReviewsContainerBound_Assigned == TRUE

\* lines 139-142: the assignment of reviews_container is commented out, so the
\* name is unbound when line 142 reads it (NameError)
ReviewsContainerBound == FALSE

\* lines 146-170: one dict per review element, four fields
ParseReview(e) ==
    [rating |-> Field(e.rating), title |-> Field(e.title),
     content |-> Field(e.content), posted_by |-> Field(e.posted_by)]

\* lines 143-170: reviews_data, in the order of review_items
ParseReviews(p) == [j \in 1..Len(p) |-> ParseReview(p[j])]

\* line 194: json.dump writes every dict with the keys it has; None is null
Dump(prods) ==
    [j \in 1..Len(prods) |->
        [f \in DOMAIN prods[j] |->
            IF prods[j][f] = None THEN JsonNull ELSE prods[j][f]]]

\* lines 105-120: one iteration of the listing loop.  The handle belongs to
\* the session scrape_site has already quit (line 69), so it dangles: a live
\* driver answers such a lookup with an exception, which skips the item.  The
\* model leaves the answer to the environment, raising included, so that the
\* code after the loop is checked as written; stale_reads counts the reads.
ExtractListingItem ==
    /\ pc = "extract"
    /\ i <= Len(items)
    /\ \E r \in Lookups :
         /\ elem' = r
         /\ products' = IF Extracted(r)
                        THEN AppendProduct(products, ProductOf(r))
                        ELSE SkipProduct(products, r)
    /\ src_of' = IF Len(products') > Len(products)
                 THEN AppendProduct(src_of, items[i])
                 ELSE src_of
    /\ outcome' = IF Len(products') > Len(products) THEN Append(outcome, "pending") ELSE outcome
    /\ stale_reads' = IF site_driver = "open" THEN stale_reads ELSE stale_reads + 1
    /\ i' = i + 1
    /\ UNCHANGED <<sentVars, entry, click_selectors, pc, error, driver, siteVars, listed, k,
                   visits, panel, reviews_data, outVars>>

AfterListing_Write == "write"

\* lines 122-125: after the listing loop comes the detail loop
AfterListing == "detail"

\* line 122: the loop is over, the count is printed
ListingDone ==
    /\ pc = "extract"
    /\ i > Len(items)
    /\ log' = Append(log, [msg |-> "found_products", n |-> Len(products)])
    /\ elem' = NoLookup
    /\ listed' = products
    /\ pc' = AfterListing
    /\ UNCHANGED <<sentVars, entry, click_selectors, error, driver, siteVars, i, stale_reads,
                   products, src_of, detailVars, artifact>>

\* lines 125-128 and 180-182: driver.get(product["link"]) on the session of
\* line 71; a failure is caught by the outer except
VisitProduct ==
    /\ pc = "detail"
    /\ k <= Len(products)
    /\ visits' = Append(visits, k)
    /\ \E ok \in NavOutcomes(products[k].link) :
         IF ok
         THEN /\ pc' = "review_btn"
              /\ UNCHANGED <<products, outcome, k>>
         ELSE /\ products' = NavExcept(products, k)
              /\ outcome' = [outcome EXCEPT ![k] = "nav_failed"]
              /\ k' = k + 1
              /\ pc' = NavExceptNext
    /\ UNCHANGED <<sentVars, entry, click_selectors, error, driver, siteVars, i, elem,
                   stale_reads, src_of, listed, panel, reviews_data, outVars>>

\* lines 174-178: the bare except of the review block
ReviewExcept ==
    /\ products' = [products EXCEPT ![k] = Fallback(@)]
    /\ outcome' = [outcome EXCEPT ![k] = "fallback"]
    /\ panel' = <<>>
    /\ k' = k + 1
    /\ pc' = "detail"

\* line 133: wait for the "See All Customer Reviews" button
WaitReviewButton ==
    /\ pc = "review_btn"
    /\ \E ok \in BOOLEAN :
         IF ok
         THEN /\ pc' = "review_click"
              /\ UNCHANGED <<products, outcome, panel, k>>
         ELSE ReviewExcept
    /\ UNCHANGED <<sentVars, entry, click_selectors, error, driver, siteVars, i, elem,
                   stale_reads, src_of, listed, visits, reviews_data, outVars>>

\* lines 134-135: click it, and print that it was clicked
ClickReviewButton ==
    /\ pc = "review_click"
    /\ \E ok \in BOOLEAN :
         IF ok
         THEN /\ pc' = "review_heading"
              /\ log' = Append(log, [msg |-> "clicked_reviews", n |-> k])
              /\ UNCHANGED <<products, outcome, panel, k>>
         ELSE /\ ReviewExcept
              /\ log' = log
    /\ UNCHANGED <<sentVars, entry, click_selectors, error, driver, siteVars, i, elem,
                   stale_reads, src_of, listed, visits, reviews_data, artifact>>

\* line 137: wait for the heading of the reviews page; the page then holds
\* some review elements
WaitReviewHeading ==
    /\ pc = "review_heading"
    /\ \E ok \in BOOLEAN :
         IF ok
         THEN /\ pc' = "review_items"
              /\ panel' \in SeqsUpTo(ReviewElems, MaxReviews)
              /\ UNCHANGED <<products, outcome, k>>
         ELSE ReviewExcept
    /\ UNCHANGED <<sentVars, entry, click_selectors, error, driver, siteVars, i, elem,
                   stale_reads, src_of, listed, visits, reviews_data, outVars>>

\* lines 142-178: reviews_container.find_elements(...), the review loop and
\* the print of 172; reviews_data is never stored in the product
ReadReviewItems ==
    /\ pc = "review_items"
    /\ IF ReviewsContainerBound
       THEN /\ reviews_data' = [bound |-> TRUE, val |-> ParseReviews(panel)]
            /\ outcome' = [outcome EXCEPT ![k] = "reviews"]
            /\ panel' = <<>>
            /\ k' = k + 1
            /\ pc' = "detail"
            /\ UNCHANGED products
       ELSE /\ ReviewExcept
            /\ UNCHANGED reviews_data
    /\ UNCHANGED <<sentVars, entry, click_selectors, error, driver, siteVars, i, elem,
                   stale_reads, src_of, listed, visits, outVars>>

\* lines 185-187: the detail loop is over, the products are printed
DetailDone ==
    /\ pc = "detail"
    /\ k > Len(products)
    /\ pc' = "write"
    /\ UNCHANGED <<sentVars, entry, click_selectors, error, driver, siteVars, listVars,
                   detailVars, outVars>>

\* lines 193-200: open the file and dump; then print, return, finally quit.
\* open raises when data/ does not exist, and the exception escapes
WriteOutput ==
    /\ pc = "write"
    /\ \E ok \in BOOLEAN :
         IF ok
         THEN /\ artifact' = [written |-> TRUE, content |-> Dump(products)]
              /\ log' = Append(log, [msg |-> "saved_products", n |-> Len(products)])
              /\ driver' = ProductsFinally(driver)
              /\ pc' = "done"
              /\ error' = error
         ELSE /\ UNCHANGED <<artifact, log, driver>>
              /\ pc' = "unwind"
              /\ error' = "OSError"
    /\ UNCHANGED <<sentVars, entry, click_selectors, siteVars, listVars, detailVars>>

\* lines 199-200 on the way out of an escaping exception
Unwind ==
    /\ pc = "unwind"
    /\ driver' = ProductsFinally(driver)
    /\ pc' = "raised"
    /\ UNCHANGED <<sentVars, entry, click_selectors, error, siteVars, listVars, detailVars,
                   outVars>>

Next ==
    \/ AcquireProductsDriver
    \/ AcquireSiteDriver
    \/ LoadPage
    \/ ClickOptional
    \/ FindSearchBox
    \/ SubmitSearch
    \/ WaitListing
    \/ FindItems
    \/ SiteExcept
    \/ ExtractListingItem
    \/ ListingDone
    \/ VisitProduct
    \/ WaitReviewButton
    \/ ClickReviewButton
    \/ WaitReviewHeading
    \/ ReadReviewItems
    \/ DetailDone
    \/ WriteOutput
    \/ Unwind

Spec == Init /\ [][Next]_vars

\* ------------------------------------------------- SentimentAnalyzer
get_sentiment_label_Strict(s) ==
    IF s > 5 THEN "Positive"
    ELSE IF s < -5 THEN "Negative"
    ELSE "Neutral"

\* src/Sentiment_analyzer.py lines 121-126, the score in hundredths:
\* >= 0.05 is Positive, <= -0.05 is Negative, anything else Neutral
get_sentiment_label(s) ==
    IF s >= 5 THEN "Positive"
    ELSE IF s <= -5 THEN "Negative"
    ELSE "Neutral"

InitSentiment ==
    /\ entry = "get_sentiment_label"
    /\ click_selectors = <<>>
    /\ score \in Scores
    /\ label = "none"
    /\ Idle

\* one call of get_sentiment_label(score)
GetSentimentLabel ==
    /\ pc = "start"
    /\ entry = "get_sentiment_label"
    /\ label' = get_sentiment_label(score)
    /\ pc' = "done"
    /\ UNCHANGED <<score, entry, click_selectors, error, driver, siteVars, listVars,
                   detailVars, outVars>>

SentimentSpec == InitSentiment /\ [][GetSentimentLabel]_vars

\* The program is one sequential flow of control and every wait is bounded
\* (WebDriverWait(driver, 20) at 33 and 72, time.sleep(1) and (5) at 46, 107,
\* 111, 117): whenever a step is possible, one is taken.
LiveSpec == Spec /\ WF_vars(Next)

\* ------------------------------------------------------------------ claims
SitePcs == {"load", "click", "search_wait", "search_submit", "listing_wait",
            "find_items", "site_fail"}
ItemFailed(n) == outcome[n] \in {"nav_failed", "fallback"}
ListingKeys == {"title", "price", "link"}
ScalarKeys == {"title", "price", "link", "rating", "review_count"}

\* C1: once the listing is there, a failure at one product (its page load
\* or its review block) never aborts scrape_products: an exception escapes
\* only from a session start or from the file write, control always moves on
\* past the failed product, every product has been visited in order when the
\* write is reached, and the finished run has written the artifact.
C1_ItemFailureNeverAborts ==
    /\ pc \in {"unwind", "raised"} => (visits = <<>> \/ error = "OSError")
    /\ \A n \in 1..Len(outcome) : ItemFailed(n) => k > n
    /\ (pc \in {"write", "done"} /\ entry = "scrape_products")
          => visits = [n \in 1..Len(products) |-> n]
    /\ (pc = "done" /\ entry = "scrape_products")
          => artifact.written /\ Len(artifact.content) = Len(products)

C1_Witness ==
    /\ pc = "done"
    /\ artifact.written
    /\ Len(products) = 2
    /\ outcome[1] = "nav_failed"
    /\ visits = <<1, 2>>

\* C2 (as stated): a navigation failure on item k leaves the record of every
\* other item what its own listing fields and its own review outcome make
\* it, and item k is in the output with a Skipped status.
C2_SkippedStatusInOutput ==
    pc = "done" /\ entry = "scrape_products" =>
        /\ Len(artifact.content) = Len(listed)
        /\ \A n \in 1..Len(listed) :
             /\ \A f \in ListingKeys : products[n][f] = listed[n][f]
             /\ outcome[n] = "nav_failed" =>
                  /\ "status" \in DOMAIN artifact.content[n]
                  /\ artifact.content[n]["status"] = "Skipped"

\* C2 (amended): a navigation failure on item k leaves the record of every
\* other item what its own listing fields and its own review outcome make
\* it, and item k is still in the output, at its place and with its listing
\* fields; no record carries a status field, the skip is only printed.
C2_NavFailureIsolated ==
    pc \in {"write", "done"} /\ entry = "scrape_products" =>
        /\ Len(products) = Len(listed)
        /\ pc = "done" => Len(artifact.content) = Len(listed)
        /\ \A n \in 1..Len(listed) :
             /\ \A f \in ListingKeys : products[n][f] = listed[n][f]
             /\ "status" \notin DOMAIN products[n]
             /\ outcome[n] = "fallback" =>
                  /\ DOMAIN products[n] = ScalarKeys
                  /\ products[n]["rating"] = NA
                  /\ products[n]["review_count"] = NA
             /\ pc = "done" => DOMAIN artifact.content[n] = DOMAIN products[n]

C2_Witness ==
    /\ pc = "done"
    /\ Len(products) = 2
    /\ outcome = <<"nav_failed", "fallback">>
    /\ artifact.written
    /\ DOMAIN artifact.content[1] = ListingKeys

\* C3: no session outlives the function that acquired it: scrape_site's
\* session is open only while control is inside scrape_site, and no session
\* is open once the entry function has returned or raised.
C3_SessionsReleased ==
    /\ pc \notin SitePcs => site_driver # "open"
    /\ pc \in {"done", "raised"} => driver # "open" /\ site_driver # "open"

C3_Witness ==
    /\ pc = "raised"
    /\ error = "OSError"
    /\ driver = "closed"
    /\ site_driver = "closed"

\* C4 (as stated): the listing item just read is in the product list, each
\* of its three fields being the text found or the sentinel.
C4_FieldsIndependent ==
    pc = "extract" /\ i > 1 =>
        /\ Len(products) >= 1
        /\ src_of[Len(src_of)] = items[i - 1]
        /\ products[Len(products)] =
              [title |-> IF elem.title = Missing THEN NA ELSE elem.title,
               price |-> IF elem.price = Missing THEN NA ELSE elem.price,
               link |-> IF elem.href = Missing THEN NA ELSE elem.href]

\* C4 (amended): title, price and link are read in one guarded block: the
\* listing item just read is in the product list, with the three values
\* found, exactly when all three lookups returned; when one of them raised
\* the whole item is left out, and the loop has moved on to the next item.
C4_ItemSkippedOnMissingField ==
    pc = "extract" /\ i > 1 =>
        /\ Len(src_of) = Len(products)
        /\ IF elem.title # Missing /\ elem.price # Missing /\ elem.href # Missing
           THEN /\ Len(products) >= 1
                /\ src_of[Len(src_of)] = items[i - 1]
                /\ products[Len(products)] =
                      [title |-> elem.title, price |-> elem.price, link |-> elem.href]
           ELSE \A n \in 1..Len(src_of) : src_of[n] # items[i - 1]
        /\ \A n \in 1..Len(products) : \A f \in ListingKeys :
              products[n][f] \notin {Missing, NA}

C4_Witness ==
    /\ pc = "extract"
    /\ i = 3
    /\ elem.title # Missing /\ elem.price = Missing /\ elem.href # Missing
    /\ src_of = <<1>>

\* C5: when the page load, the search or the listing wait fails, no listing
\* is obtained: scrape_site returns the empty list, no product is built and
\* no detail page is visited, and the finished run has written the empty
\* array and printed 0 found and 0 saved.
C5_AbortedRunIsEmpty ==
    (pc \notin SitePcs \cup {"start", "call_site"} /\ "listing" \notin reached) =>
        /\ items = <<>>
        /\ products = <<>>
        /\ visits = <<>>
        /\ (pc = "done" /\ entry = "scrape_products") =>
              /\ artifact = [written |-> TRUE, content |-> <<>>]
              /\ log = <<[msg |-> "found_products", n |-> 0],
                         [msg |-> "saved_products", n |-> 0]>>

C5_Witness ==
    /\ pc = "done"
    /\ entry = "scrape_products"
    /\ reached = {"load"}
    /\ artifact = [written |-> TRUE, content |-> <<>>]

\* C6: an optional click that fails is not an error of scrape_site: whatever
\* its outcome, the click loop goes on to the next selector and, after the
\* last one, to the search, so that the search step is reached with every
\* selector attempted.
C6_ClickFailureIgnored ==
    [][pc = "click" =>
          /\ sel' = sel + 1
          /\ Len(clicks') = sel
          /\ pc' = IF sel < Len(click_selectors) THEN "click" ELSE "search_wait"
          /\ UNCHANGED <<reached, items, site_driver, error>>]_vars

C6_Witness ==
    /\ pc = "search_submit"
    /\ Len(click_selectors) = 2
    /\ clicks = <<"failed", "clicked">>

\* C7: the stages come in the fixed order load, optional clicks, search,
\* listing, detail visits, write: nothing is clicked or searched before the
\* page has loaded, the search follows the last click, the listing follows
\* the search, a detail page is visited only after scrape_site has returned
\* the listing and the listing loop is over, and the artifact is written only
\* when every product's iteration has ended.
C7_StageOrder ==
    /\ clicks # <<>> => "load" \in reached
    /\ pc \in {"search_wait", "search_submit"} => "load" \in reached
    /\ "search" \in reached => "load" \in reached /\ Len(clicks) = Len(click_selectors)
    /\ "listing" \in reached => "search" \in reached
    /\ items # <<>> => "listing" \in reached
    /\ visits # <<>> =>
          /\ "listing" \in reached
          /\ pc \notin SitePcs
          /\ i > Len(items)
    /\ (pc = "write" \/ artifact.written) =>
          /\ i > Len(items)
          /\ Len(visits) = Len(products)
          /\ \A n \in 1..Len(products) : outcome[n] # "pending"

C7_Witness ==
    /\ pc = "done"
    /\ artifact.written
    /\ Len(items) = 2
    /\ Len(products) = 1
    /\ outcome = <<"fallback">>
    /\ clicks = <<"failed">>

\* C8: every record of the output carries a reviews sequence, empty when
\* the review trigger timed out.
C8_RecordsCarryReviews ==
    pc = "done" /\ entry = "scrape_products" =>
        \A n \in 1..Len(artifact.content) :
            /\ "reviews" \in DOMAIN artifact.content[n]
            /\ outcome[n] = "fallback" => artifact.content[n]["reviews"] = <<>>

\* C9: when the review elements of the opened panel are read, one review
\* record is emitted for each of them, with the four fields rating, title,
\* content and posted_by, each the text found or the sentinel.
C9_OneRecordPerReviewHandle ==
    [][pc = "review_items" =>
          \A j \in 1..Len(panel) :
              /\ reviews_data'.bound
              /\ Len(reviews_data'.val) = Len(panel)
              /\ DOMAIN reviews_data'.val[j] = {"rating", "title", "content", "posted_by"}
              /\ \A f \in DOMAIN panel[j] :
                    reviews_data'.val[j][f] = IF panel[j][f] = Missing THEN NA ELSE panel[j][f]]_vars

\* C10: every record written has the five scalar fields title, price, link,
\* rating and review_count, none of them null.
C10_ScalarFieldsPresent ==
    pc = "done" /\ entry = "scrape_products" =>
        \A n \in 1..Len(artifact.content) :
            /\ ScalarKeys \subseteq DOMAIN artifact.content[n]
            /\ \A f \in ScalarKeys : artifact.content[n][f] \notin {JsonNull, None}

\* C11: no record of the output has a null identity: title and link are
\* both non-null in every record written.
C11_IdentityNotNull ==
    pc = "done" /\ entry = "scrape_products" =>
        \A n \in 1..Len(artifact.content) :
            /\ artifact.content[n]["title"] \notin {JsonNull, None}
            /\ artifact.content[n]["link"] \notin {JsonNull, None}

\* C12: the records are the listing items in listing order, some left out:
\* the listing positions of the products increase strictly, each is a
\* position of the listing, so no item comes twice and there are at most as
\* many products as items; the detail loop and the write keep that order, the
\* record at place n of the output being the product at place n of line 122.
C12_OrderPreserved ==
    /\ Len(src_of) = Len(products)
    /\ Len(products) <= Len(items)
    /\ \A n \in 1..Len(src_of) : src_of[n] \in 1..Len(items)
    /\ \A m, n \in 1..Len(src_of) : m < n => src_of[m] < src_of[n]
    /\ (pc \in {"write", "done"} /\ entry = "scrape_products") =>
          /\ Len(products) = Len(listed)
          /\ \A n \in 1..Len(listed) :
                \A f \in ListingKeys : products[n][f] = listed[n][f]
    /\ (pc = "done" /\ entry = "scrape_products") =>
          /\ Len(artifact.content) = Len(listed)
          /\ \A n \in 1..Len(listed) :
                artifact.content[n]["title"] = listed[n]["title"]

C12_Witness ==
    /\ pc = "done"
    /\ Len(items) = 2
    /\ src_of = <<1, 2>>
    /\ artifact.written
    /\ artifact.content[1]["title"] = "Laptop B"
    /\ artifact.content[2]["title"] = "Laptop A"

\* C13: whatever page load, click, search, listing wait, field lookup, detail
\* navigation and review step fails, scrape_products ends having written the
\* artifact; it ends without one only with the exception of a session that
\* could not start or of a file that could not be opened.
C13_RunEndsWithArtifact ==
    entry = "scrape_products" =>
        <>(\/ pc = "done" /\ artifact.written
           \/ pc = "raised" /\ error \in {"WebDriverException", "OSError"})

C13_Witness ==
    /\ pc = "done"
    /\ artifact.written
    /\ clicks = <<"failed">>
    /\ Len(items) = 2
    /\ src_of = <<2>>
    /\ outcome = <<"nav_failed">>
    /\ error = "none"

\* the sessions started so far: line 71 (driver) and line 32 (site_driver)
SessionsAcquired ==
    {d \in {"driver", "site_driver"} :
        (IF d = "driver" THEN driver ELSE site_driver) # "none"}

\* the sessions calls were made on so far: load, clicks, search and listing
\* go to scrape_site's driver (36-60), the reads of the listing handles to the
\* session that made them (108-110), the detail navigation to the driver of
\* scrape_products (128)
CallSessions ==
    (IF reached # {} \/ clicks # <<>> \/ i > 1 THEN {"site_driver"} ELSE {})
        \cup (IF visits # <<>> THEN {"driver"} ELSE {})

\* C14: a finished run has acquired exactly one session and has made every
\* page load, click, search, listing read and detail navigation on it.
C14_OneSessionPerRun ==
    pc = "done" /\ entry = "scrape_products" =>
        /\ Cardinality(SessionsAcquired) = 1
        /\ CallSessions \subseteq SessionsAcquired
        /\ Cardinality(CallSessions) <= 1

\* C15: get_sentiment_label gives every score of [-1, 1] exactly one of the
\* three labels: Positive exactly from 0.05 up, Negative exactly from -0.05
\* down, Neutral exactly strictly between the two.
C15_ThreeWayLabel ==
    pc = "done" /\ entry = "get_sentiment_label" =>
        /\ label \in {"Positive", "Negative", "Neutral"}
        /\ label = "Positive" <=> score >= 5
        /\ label = "Negative" <=> score <= -5
        /\ label = "Neutral" <=> (-5 < score /\ score < 5)

C15_Witness ==
    /\ pc = "done"
    /\ score = 5
    /\ label = "Positive"

\* C16: no listing handle is read after the session that made it was quit.
C16_NoReadAfterRelease == stale_reads = 0

\* C17: the review step of a product whose page loaded always ends in the
\* fallback of 174-178, whether the button never came or was clicked: the
\* product gets rating = review_count = "N/A", no product ever gets a review
\* list and reviews_data is never bound; so in every record rating and
\* review_count are both absent or both "N/A".
C17_ReviewStepAlwaysFallsBack ==
    /\ ~reviews_data.bound
    /\ \A n \in 1..Len(outcome) : outcome[n] \in {"pending", "nav_failed", "fallback"}
    /\ \A n \in 1..Len(log) :
          log[n].msg = "clicked_reviews" /\ k > log[n].n => outcome[log[n].n] = "fallback"
    /\ \A n \in 1..Len(products) :
          /\ "reviews" \notin DOMAIN products[n]
          /\ "rating" \in DOMAIN products[n] <=> "review_count" \in DOMAIN products[n]
          /\ "rating" \in DOMAIN products[n] <=> outcome[n] = "fallback"
          /\ "rating" \in DOMAIN products[n] =>
                products[n]["rating"] = NA /\ products[n]["review_count"] = NA
    /\ pc = "done" =>
          \A n \in 1..Len(artifact.content) :
              /\ "reviews" \notin DOMAIN artifact.content[n]
              /\ IF "rating" \in DOMAIN artifact.content[n]
                 THEN /\ "review_count" \in DOMAIN artifact.content[n]
                      /\ artifact.content[n]["rating"] = NA
                      /\ artifact.content[n]["review_count"] = NA
                 ELSE "review_count" \notin DOMAIN artifact.content[n]

C17_Witness ==
    /\ pc = "done"
    /\ Len(products) = 2
    /\ \E n \in 1..Len(log) : log[n] = [msg |-> "clicked_reviews", n |-> 1]
    /\ \A n \in 1..Len(log) : log[n] # [msg |-> "clicked_reviews", n |-> 2]
    /\ outcome = <<"fallback", "fallback">>
    /\ artifact.content[1]["rating"] = NA
    /\ artifact.content[2]["review_count"] = NA

====
